---- MODULE Spec2Model ----
(***************************************************************************)
(* Model of ilknarf/z-order-rectangles: a 4-D Z-order (bit interleaving)   *)
(* code for rectangles (x0, x1, y0, y1) in one uint64 (z_order.go) and the *)
(* min/max span rectangles that main() derives from a truncated key.       *)
(*                                                                         *)
(* A uint64 is modelled as the set of its 1-bit positions, a subset of     *)
(* 0..63, so that every shift, mask and comparison keeps the 64-bit width. *)
(* A uint (a field value) is a natural number; the code reads only its     *)
(* bits 0..15.                                                             *)
(***************************************************************************)
EXTENDS Integers, FiniteSets, Sequences

\* z_order.go:8   maxDimBits = 16  (64 bits / 4 dimensions)
maxDimBits == 16

\* main (src/unnamed/part_000):51   precisionBits = 4  (the demo's precision; the span
\* computation is explored for every precision 0..maxDimBits)
precisionBits == 4

\* Number of generated field values added to the fixed ones.
MaxExtra == 1

\* Largest number of rectangle keys kept in the stored collection.
MaxStored == 3

Pow2(n) == 2 ^ n

\* z_order.go:9   maxDimVal = (1 << 16) - 1
maxDimVal == Pow2(maxDimBits) - 1

\* bit i of the unsigned value v:  v & (1 << i) > 0
Bit(v, i) == (v \div Pow2(i)) % 2 = 1

\* The 64 bit positions of a uint64; math.MaxUint64 has them all set.
BitPos == 0 .. 63
MaxUint64 == BitPos

\* uint64(1 << n): a shift count of 64 or more gives 0 in Go.
ShiftOne(n) == IF n \in BitPos THEN {n} ELSE {}

\* a & b, a | b, a ^ b on uint64
And(a, b) == a \cap b
Or(a, b) == a \cup b
Xor(a, b) == (a \ b) \cup (b \ a)

\* k >> n and k << n on uint64 (bits shifted out are lost; n >= 64 gives 0)
ShiftRight(k, n) == { b - n : b \in { c \in k : c >= n } }
ShiftLeft(k, n) == { b + n : b \in { c \in k : c + n <= 63 } }

\* The dimension offsets ("start") the accessors use: Y1 = 0 .. X0 = 3
Starts == 0 .. 3

----------------------------------------------------------------------------
(* z_order.go: lookupVal and setVal.  Each loop runs i over 0..15 and     *)
(* touches bit i*4 + start, a different bit for every i, so a loop's      *)
(* result is given bit by bit.                                            *)

\* The loop index: for i := 0; i < maxDimBits; i += 1
LoopIdx == 0 .. (maxDimBits - 1)

\* The unsigned value with exactly the bits in S set (res |= 1 << i for
\* each i in S, starting from 0), summed from bit n down.
RECURSIVE OrBitsUpTo(_, _)
OrBitsUpTo(S, n) ==
    IF n < 0 THEN 0
    ELSE (IF n \in S THEN Pow2(n) ELSE 0) + OrBitsUpTo(S, n - 1)

OrBits(S) == OrBitsUpTo(S, maxDimBits - 1)

\* A lookupVal that fills the result from the top bit down.
lookupValReversed(val, start) ==
    OrBits({ (maxDimBits - 1) - i : i \in { j \in LoopIdx : And(ShiftOne(j * 4 + start), val) # {} } })

lookupVal(val, start) ==
    OrBits({ i \in LoopIdx : And(ShiftOne(i * 4 + start), val) # {} })

\* clearMask after the first loop: math.MaxUint64 with every bit
\* i*4 + start toggled once.
clearMaskOf(start) ==
    Xor(MaxUint64, UNION { ShiftOne(i * 4 + start) : i \in LoopIdx })

\* The bits the second loop sets: bit i*4 + start for every bit i of varVal.
setBitsOf(varVal, start) ==
    UNION { ShiftOne(i * 4 + start) : i \in { j \in LoopIdx : Bit(varVal, j) } }

\* A setVal that forgets to clear the field before writing it.
setValNoClear(encodedVal, varVal, start) == Or(encodedVal, setBitsOf(varVal, start))

\* A setVal whose second loop runs one bit too far (i <= maxDimBits).
setValWide(encodedVal, varVal, start) ==
    Or(Or(And(encodedVal, clearMaskOf(start)), setBitsOf(varVal, start)),
       IF Bit(varVal, maxDimBits) THEN ShiftOne(start + 4) ELSE {})

\* A setVal whose clear mask is one slot off (it clears the next field).
setValClearNext(encodedVal, varVal, start) ==
    Or(And(encodedVal, clearMaskOf((start + 1) % 4)), setBitsOf(varVal, start))

setVal(encodedVal, varVal, start) ==
    LET clearMask == clearMaskOf(start)
        res       == And(encodedVal, clearMask)
    IN  Or(res, setBitsOf(varVal, start))

\* SetX1 with SetY0's offset.
SetX1AtY0(r, val) == setVal(r, val, 1)

(* RectHash accessors; a RectHash is its Val *)
X0(r) == lookupVal(r, 3)
X1(r) == lookupVal(r, 2)
Y0(r) == lookupVal(r, 1)
Y1(r) == lookupVal(r, 0)
SetX0(r, val) == setVal(r, val, 3)
SetX1(r, val) == setVal(r, val, 2)
SetY0(r, val) == setVal(r, val, 1)
SetY1(r, val) == setVal(r, val, 0)

\* &RectHash{}: the zero value
ZeroRect == {}

----------------------------------------------------------------------------
(* main (src/unnamed/part_000): truncation to precision p and the span   *)
(* rectangles                                                             *)

\* truncBits := (maxDimBits - precisionBits) * 4
truncBits(p) == (maxDimBits - p) * 4

\* inc = 1 << (maxDimBits - precisionBits)
inc(p) == Pow2(maxDimBits - p)

\* A truncation that forgets to shift back.
TruncNoShiftBack(val, p) == ShiftRight(val, truncBits(p))

\* A truncation that counts one bit per dimension bit instead of four.
TruncPerBit(val, p) ==
    ShiftLeft(ShiftRight(val, maxDimBits - p), maxDimBits - p)

\* minRectVal := rect.Val >> truncBits;  minRectVal <<= truncBits
Trunc(val, p) == ShiftLeft(ShiftRight(val, truncBits(p)), truncBits(p))

\* main, lines 97-101: minSpanRect
MinSpanOf(minRect, p) ==
    LET r1 == SetX0(ZeroRect, X0(minRect) + inc(p))
        r2 == SetY0(r1, Y0(minRect) + inc(p))
        r3 == SetX1(r2, X1(minRect))
    IN  SetY1(r3, Y1(minRect))

\* main, lines 103-107: maxSpanRect
MaxSpanOf(minRect, p) ==
    LET r1 == SetX0(ZeroRect, X0(minRect))
        r2 == SetY0(r1, Y0(minRect))
        r3 == SetX1(r2, X1(minRect) + inc(p))
    IN  SetY1(r3, Y1(minRect) + inc(p))

----------------------------------------------------------------------------
(* Inputs *)

\* Generated field values of up to 17 bits: 33096, 66192, ...
ExtraValues == { (j * 33096) % 131072 : j \in 1 .. MaxExtra }

\* Field values main() hands to the setters: the extremes, values wider
\* than 16 bits (65536, 70000), and the generated ones.
Values == {0, 1, 65535, 65536, 70000} \cup ExtraValues

\* Field values of the setter calls made in any order.
CodecValues == {0, 65535, 70000} \cup ExtraValues

Precisions == 0 .. maxDimBits

\* Initial contents of a RectHash the setters are applied to.
InitKeys == { ZeroRect, MaxUint64, { b \in BitPos : b % 3 = 0 } }

\* Arguments of the concurrent setter calls.
ConcValues == {0, 65535, 70000}

\* Field values of the stored rectangles: two that share their top 15 bits
\* and one that shares only the top 4 bits with them.
SortValues == {33096, 33097, 36608}

\* The stored rectangles: x0 <= x1 and y0 <= y1, built as main() builds rect.
RectKeys ==
    { SetY1(SetY0(SetX1(SetX0(ZeroRect, a), b), c), e) :
        <<a, b, c, e>> \in { q \in SortValues \X SortValues \X SortValues \X SortValues :
                               q[1] <= q[2] /\ q[3] <= q[4] } }

\* The two goroutines of the concurrent scenario, and the two 32-bit words
\* of a uint64 on a build whose machine word is 32 bits.
Threads == {1, 2}
Halves == {"lo", "hi"}
Half(h) == IF h = "lo" THEN 0 .. 31 ELSE 32 .. 63

VARIABLES
    rect,          \* rect.Val, the RectHash the setters act on
    pc,            \* position in main() / which scenario runs
    precision,     \* the precision p the truncation was done with
    minRect,       \* minRect.Val
    minSpanRect,   \* minSpanRect.Val
    maxSpanRect,   \* maxSpanRect.Val
    call,          \* the last setter call on rect: [start, val], or NoCall
    assigned,      \* per start: the value of the last setter call, or None
    thr,           \* per goroutine: its call (start, val), position, the
                   \* r.Val it loaded, and the words still to load / store
    wordBits,      \* 64: a uint64 is loaded/stored at once; 32: in two words
    initial,       \* rect.Val before the first setter call of the scenario
    overlapped,    \* the two concurrent calls overlapped in time
    stored         \* a collection of rectangle keys

mainVars == <<precision, minRect, minSpanRect, maxSpanRect>>
codecVars == <<call, assigned>>
concVars == <<thr, wordBits, initial, overlapped>>
vars == <<rect, pc, mainVars, codecVars, concVars, stored>>

\* Not a field value and not a start: no call yet.
None == 0 - 1
NoCall == [start |-> None, val |-> None]
NoneAssigned == [d \in Starts |-> None]
IdleThread == [start |-> None, val |-> None, pc |-> "done", tmp |-> {}, pend |-> Halves]
NoThreads == [t \in Threads |-> IdleThread]

\* The variables a scenario does not use.
MainIdle ==
    /\ precision = precisionBits
    /\ minRect = ZeroRect
    /\ minSpanRect = ZeroRect
    /\ maxSpanRect = ZeroRect
CodecIdle == call = NoCall /\ assigned = NoneAssigned
ConcIdle ==
    /\ thr = NoThreads
    /\ wordBits = 64
    /\ initial = ZeroRect
    /\ overlapped = FALSE

----------------------------------------------------------------------------
(* Spec: main(), lines 74-107, for any four field values and any precision *)

Init ==
    /\ rect = ZeroRect
    /\ pc = "setX0"
    /\ MainIdle /\ CodecIdle /\ ConcIdle
    /\ stored = {}

MainSetX0 ==
    /\ pc = "setX0"
    /\ \E v \in Values : rect' = SetX0(rect, v)
    /\ pc' = "setX1"
    /\ UNCHANGED <<mainVars, codecVars, concVars, stored>>

MainSetX1 ==
    /\ pc = "setX1"
    /\ \E v \in Values : rect' = SetX1(rect, v)
    /\ pc' = "setY0"
    /\ UNCHANGED <<mainVars, codecVars, concVars, stored>>

MainSetY0 ==
    /\ pc = "setY0"
    /\ \E v \in Values : rect' = SetY0(rect, v)
    /\ pc' = "setY1"
    /\ UNCHANGED <<mainVars, codecVars, concVars, stored>>

MainSetY1 ==
    /\ pc = "setY1"
    /\ \E v \in Values : rect' = SetY1(rect, v)
    /\ pc' = "truncate"
    /\ UNCHANGED <<mainVars, codecVars, concVars, stored>>

Truncate ==
    /\ pc = "truncate"
    /\ \E p \in Precisions :
         /\ precision' = p
         /\ minRect' = Trunc(rect, p)
    /\ pc' = "minSpan"
    /\ UNCHANGED <<rect, minSpanRect, maxSpanRect, codecVars, concVars, stored>>

BuildMinSpan ==
    /\ pc = "minSpan"
    /\ minSpanRect' = MinSpanOf(minRect, precision)
    /\ pc' = "maxSpan"
    /\ UNCHANGED <<rect, precision, minRect, maxSpanRect, codecVars, concVars, stored>>

BuildMaxSpan ==
    /\ pc = "maxSpan"
    /\ maxSpanRect' = MaxSpanOf(minRect, precision)
    /\ pc' = "done"
    /\ UNCHANGED <<rect, precision, minRect, minSpanRect, codecVars, concVars, stored>>

Next ==
    \/ MainSetX0
    \/ MainSetX1
    \/ MainSetY0
    \/ MainSetY1
    \/ Truncate
    \/ BuildMinSpan
    \/ BuildMaxSpan

Spec == Init /\ [][Next]_vars

----------------------------------------------------------------------------
(* SpecCodec: the four setters called in any order, any number of times,  *)
(* on a RectHash with any initial Val                                     *)

InitCodec ==
    /\ rect \in InitKeys
    /\ initial = rect
    /\ pc = "codec"
    /\ MainIdle /\ CodecIdle
    /\ thr = NoThreads /\ wordBits = 64 /\ overlapped = FALSE
    /\ stored = {}

Called(start, v) ==
    /\ pc = "codec"
    /\ call' = [start |-> start, val |-> v]
    /\ assigned' = [assigned EXCEPT ![start] = v]
    /\ UNCHANGED <<pc, mainVars, concVars, stored>>

CallSetX0 == \E v \in CodecValues : rect' = SetX0(rect, v) /\ Called(3, v)
CallSetX1 == \E v \in CodecValues : rect' = SetX1(rect, v) /\ Called(2, v)
CallSetY0 == \E v \in CodecValues : rect' = SetY0(rect, v) /\ Called(1, v)
CallSetY1 == \E v \in CodecValues : rect' = SetY1(rect, v) /\ Called(0, v)

NextCodec ==
    \/ CallSetX0
    \/ CallSetX1
    \/ CallSetY0
    \/ CallSetY1

SpecCodec == InitCodec /\ [][NextCodec]_vars

----------------------------------------------------------------------------
(* SpecConc: two goroutines each call one setter, for different           *)
(* dimensions, on the same RectHash, with no lock.  A setter is           *)
(*     r.Val = setVal(r.Val, val, start)                                  *)
(* a load of r.Val, the pure setVal, and a store to r.Val.  The calls     *)
(* race on r.Val: a 64-bit build loads and stores it at once, a 32-bit    *)
(* build in two words, in either order.                                   *)

Other(t) == CHOOSE u \in Threads : u # t
InFlight(t) == thr[t].pc # "done" /\ (thr[t].pc = "store" \/ thr[t].pend # Halves)
AllDone == pc = "conc" /\ \A t \in Threads : thr[t].pc = "done"

InitConc ==
    /\ rect \in InitKeys
    /\ initial = rect
    /\ pc = "conc"
    /\ wordBits \in {32, 64}
    /\ \E s1 \in Starts, s2 \in Starts, v1 \in ConcValues, v2 \in ConcValues :
         /\ s1 > s2
         /\ thr = [t \in Threads |->
                     [start |-> IF t = 1 THEN s1 ELSE s2,
                      val   |-> IF t = 1 THEN v1 ELSE v2,
                      pc    |-> "load", tmp |-> {}, pend |-> Halves]]
    /\ overlapped = FALSE
    /\ MainIdle /\ CodecIdle
    /\ stored = {}

\* The words one access moves, and those left for the next access.
Moved(h) == IF wordBits = 64 THEN BitPos ELSE Half(h)
Left(t, h) == IF wordBits = 64 THEN {} ELSE thr[t].pend \ {h}

Load(t, h) ==
    /\ pc = "conc"
    /\ thr[t].pc = "load"
    /\ h \in thr[t].pend
    /\ thr' = [thr EXCEPT ![t] =
                 [@ EXCEPT !.tmp  = Or(@, And(rect, Moved(h))),
                           !.pend = IF Left(t, h) = {} THEN Halves ELSE Left(t, h),
                           !.pc   = IF Left(t, h) = {} THEN "store" ELSE "load"]]
    /\ overlapped' = (overlapped \/ InFlight(Other(t)))
    /\ UNCHANGED <<rect, pc, wordBits, initial, mainVars, codecVars, stored>>

Store(t, h) ==
    /\ pc = "conc"
    /\ thr[t].pc = "store"
    /\ h \in thr[t].pend
    /\ LET new == setVal(thr[t].tmp, thr[t].val, thr[t].start)
       IN  rect' = Or(And(rect, BitPos \ Moved(h)), And(new, Moved(h)))
    /\ thr' = [thr EXCEPT ![t] =
                 [@ EXCEPT !.pend = IF Left(t, h) = {} THEN Halves ELSE Left(t, h),
                           !.pc   = IF Left(t, h) = {} THEN "done" ELSE "store"]]
    /\ overlapped' = (overlapped \/ InFlight(Other(t)))
    /\ UNCHANGED <<pc, wordBits, initial, mainVars, codecVars, stored>>

NextConc ==
    \/ \E t \in Threads, h \in Halves : Load(t, h)
    \/ \E t \in Threads, h \in Halves : Store(t, h)

SpecConc == InitConc /\ [][NextConc]_vars

----------------------------------------------------------------------------
(* SpecSort: a collection of rectangle keys, as a sort-based index would  *)
(* hold them                                                              *)

InitSort ==
    /\ rect = ZeroRect
    /\ pc = "sort"
    /\ MainIdle /\ CodecIdle /\ ConcIdle
    /\ stored = {}

StoreRect ==
    /\ pc = "sort"
    /\ Cardinality(stored) < MaxStored
    /\ \E k \in RectKeys : stored' = stored \cup {k}
    /\ UNCHANGED <<rect, pc, mainVars, codecVars, concVars>>

NextSort == StoreRect

SpecSort == InitSort /\ [][NextSort]_vars

----------------------------------------------------------------------------
(* Properties of the codec, checked under SpecCodec *)

FieldMod(v) == v % Pow2(maxDimBits)
AllAssigned == \A d \in Starts : assigned[d] # None

\* C1 -- Round trip with silent truncation: after setVal(k, v, d) on any
\* key k, lookupVal at d gives v mod 65536; so a value of at most 16 bits
\* (0 and 65535 included) reads back unchanged and 70000 reads back as 4464.
RoundTrip ==
    call # NoCall =>
        /\ lookupVal(rect, call.start) = FieldMod(call.val)
        /\ (call.val <= maxDimVal => lookupVal(rect, call.start) = call.val)
        /\ (call.val = 70000 => lookupVal(rect, call.start) = 4464)

\* A 17-bit value has been written over a field of a key that was not zero.
RoundTripWitness ==
    /\ initial = MaxUint64
    /\ call = [start |-> 3, val |-> 70000]
    /\ X0(rect) = 4464

\* C2 -- Dimension isolation: a setter call (setVal at offset d, with any
\* value, wide ones included) leaves lookupVal at every other offset as it
\* was before the call.
Isolation ==
    [][\A d \in Starts :
          d # call'.start => lookupVal(rect', d) = lookupVal(rect, d)]_vars

\* A wide value has been written at X0 while X1 held 33096 and still does.
IsolationWitness ==
    /\ call = [start |-> 3, val |-> 70000]
    /\ assigned[2] = 33096
    /\ X1(rect) = 33096
    /\ Y1(rect) = lookupVal(initial, 0)
    /\ initial # ZeroRect

\* C7 -- Bit-exact layout: once SetX0(a), SetX1(b), SetY0(c) and SetY1(e)
\* have all been called (in any order, on any initial Val), bit 4i+3 of Val
\* is bit i of a, bit 4i+2 is bit i of b, bit 4i+1 is bit i of c and bit 4i
\* is bit i of e, for every i in 0..15: nothing of the initial Val is left.
Layout ==
    AllAssigned =>
        \A i \in LoopIdx :
            /\ (4 * i + 3 \in rect) <=> Bit(assigned[3], i)
            /\ (4 * i + 2 \in rect) <=> Bit(assigned[2], i)
            /\ (4 * i + 1 \in rect) <=> Bit(assigned[1], i)
            /\ (4 * i \in rect) <=> Bit(assigned[0], i)

\* All four fields have been set, to different values, over an all-ones key.
LayoutWitness ==
    /\ AllAssigned
    /\ initial = MaxUint64
    /\ assigned[3] = 33096 /\ assigned[2] = 70000
    /\ assigned[1] = 0 /\ assigned[0] = 65535
    /\ call.start = 2

----------------------------------------------------------------------------
(* Properties of the truncation and the spans, checked under Spec *)

Truncated == pc \in {"minSpan", "maxSpan", "done"}

\* v with its low n bits cleared
ClearLow(v, n) == (v \div Pow2(n)) * Pow2(n)

\* C5 -- Key truncation is per-field truncation: with T = (k >> 4*(16-p))
\* << 4*(16-p), every field of T is the field of k with its low 16-p bits
\* cleared; p = 4 clears the low 12 bits of every field, p = 16 gives
\* T = k and p = 0 gives T = 0.
TruncationPerField ==
    Truncated =>
        /\ \A d \in Starts :
             lookupVal(minRect, d) = ClearLow(lookupVal(rect, d), maxDimBits - precision)
        /\ (precision = 4 => \A d \in Starts : lookupVal(minRect, d) % 4096 = 0)
        /\ (precision = maxDimBits => minRect = rect)
        /\ (precision = 0 => minRect = ZeroRect)

\* A key with low bits in its fields has been truncated at precision 4.
TruncationPerFieldWitness ==
    /\ Truncated
    /\ precision = 4
    /\ X0(rect) = 33096 /\ X0(minRect) = 32768
    /\ Y1(rect) = 65535 /\ Y1(minRect) = 61440

\* C9 -- Idempotent truncation: truncating a truncated key again at the
\* same precision changes nothing.
TruncationIdempotent == Truncated => Trunc(minRect, precision) = minRect

\* A truncation that removed bits, and kept some, has been done.
TruncationIdempotentWitness ==
    /\ pc = "minSpan"
    /\ precision \in 1 .. (maxDimBits - 1)
    /\ minRect # rect
    /\ minRect # ZeroRect

\* C4 -- Containment, as claimed: the min span's X0 and Y0 are at least the
\* truncated key's, and the max span's X1 and Y1 are at least the truncated
\* key's.
ContainmentClaim ==
    pc = "done" =>
        /\ X0(minSpanRect) >= X0(minRect)
        /\ Y0(minSpanRect) >= Y0(minRect)
        /\ X1(maxSpanRect) >= X1(minRect)
        /\ Y1(maxSpanRect) >= Y1(minRect)

\* Keys that truncate to minRect at the precision used: rect itself, the
\* bucket's lowest key and its highest key.
BucketProbes ==
    { rect, minRect, Or(minRect, { b \in BitPos : b < truncBits(precision) }) }

\* C3 -- Bucket bracketing, as claimed: every key in rect's bucket lies
\* between the two spans on each axis.
BracketingClaim ==
    pc = "done" =>
        \A other \in BucketProbes :
            Trunc(other, precision) = Trunc(rect, precision) =>
                /\ X0(maxSpanRect) <= X0(other) /\ X0(other) <= X0(minSpanRect)
                /\ Y0(maxSpanRect) <= Y0(other) /\ Y0(other) <= Y0(minSpanRect)
                /\ X1(minSpanRect) <= X1(other) /\ X1(other) <= X1(maxSpanRect)
                /\ Y1(minSpanRect) <= Y1(other) /\ Y1(other) <= Y1(maxSpanRect)

\* The four per-axis gaps between two span rectangles.
Gaps(minSpan, maxSpan) ==
    << X0(minSpan) - X0(maxSpan), Y0(minSpan) - Y0(maxSpan),
       X1(maxSpan) - X1(minSpan), Y1(maxSpan) - Y1(minSpan) >>

GapsAt(k, p) == Gaps(MinSpanOf(Trunc(k, p), p), MaxSpanOf(Trunc(k, p), p))

\* C6 -- Monotonic precision, as claimed: the gaps at the precision used
\* are at least the gaps at any higher precision.
MonotonicClaim ==
    pc = "done" =>
        \A q \in Precisions :
            q > precision =>
                \A axis \in 1 .. 4 :
                    Gaps(minSpanRect, maxSpanRect)[axis] >= GapsAt(rect, q)[axis]

\* No field of the truncated key is in the last cell of its axis: adding
\* inc stays within 16 bits.
NoWrap == \A d \in Starts : lookupVal(minRect, d) + inc(precision) <= maxDimVal

\* Where nothing wraps, the containment, the bracketing and (against
\* higher precisions that do not wrap either) the monotonicity all hold.
SpansWithoutWrap ==
    (pc = "done" /\ NoWrap) =>
        /\ X0(minSpanRect) = X0(minRect) + inc(precision)
        /\ Y0(minSpanRect) = Y0(minRect) + inc(precision)
        /\ X1(maxSpanRect) = X1(minRect) + inc(precision)
        /\ Y1(maxSpanRect) = Y1(minRect) + inc(precision)
        /\ \A other \in BucketProbes :
                /\ X0(maxSpanRect) <= X0(other) /\ X0(other) <= X0(minSpanRect)
                /\ Y0(maxSpanRect) <= Y0(other) /\ Y0(other) <= Y0(minSpanRect)
                /\ X1(minSpanRect) <= X1(other) /\ X1(other) <= X1(maxSpanRect)
                /\ Y1(minSpanRect) <= Y1(other) /\ Y1(other) <= Y1(maxSpanRect)

----------------------------------------------------------------------------
(* Concurrent setters, checked under SpecConc *)

----------------------------------------------------------------------------
(* Sort order and buckets, checked under SpecSort *)

\* a <= b on uint64: equal, or some bit of b alone lies above every bit
\* of a alone (the highest bit in which they differ is b's).
LeqU64(a, b) ==
    \/ a = b
    \/ \E x \in b \ a : \A y \in a \ b : y < x

Dist(x, y) == IF x >= y THEN x - y ELSE y - x

\* The lowest and the highest stored key in uint64 order: the ends of the
\* contiguous range of sorted keys that the collection is.
Lowest == CHOOSE x \in stored : \A y \in stored : LeqU64(x, y)
Highest == CHOOSE x \in stored : \A y \in stored : LeqU64(y, x)

\* C10 -- Sort-order buckets are spatially tight: for keys a <= m <= b (as
\* unsigned 64-bit integers; a and b the ends of the stored range, m any
\* stored key) and any precision p, if a and b truncate to the same key
\* then so does m, and every field of m differs from the same field of a
\* by less than 1 << (16-p).
SortBuckets ==
    \A a \in stored, b \in stored :
        (\A m \in stored : LeqU64(a, m) /\ LeqU64(m, b)) =>
            \A m \in stored :
                LET gap == << Dist(lookupVal(m, 0), lookupVal(a, 0)),
                              Dist(lookupVal(m, 1), lookupVal(a, 1)),
                              Dist(lookupVal(m, 2), lookupVal(a, 2)),
                              Dist(lookupVal(m, 3), lookupVal(a, 3)) >>
                IN  \A p \in Precisions :
                        Trunc(a, p) = Trunc(b, p) =>
                            /\ Trunc(m, p) = Trunc(a, p)
                            /\ \A d \in Starts : gap[d + 1] < inc(p)

\* Three different keys of one precision-15 bucket are stored: the range
\* has a key strictly inside it, with a different X0.
SortBucketsWitness ==
    /\ Cardinality(stored) = 3
    /\ Trunc(Lowest, 15) = Trunc(Highest, 15)
    /\ \E m \in stored :
         /\ m # Lowest /\ m # Highest
         /\ LeqU64(Lowest, m) /\ LeqU64(m, Highest)
         /\ X0(m) # X0(Lowest)

====
